---- MODULE Spec2Model ----
(***************************************************************************)
(* Model of ProdCreator.py: the retrying request client                    *)
(* MistralAPI._make_request, the four generate_* wrappers, generate_image  *)
(* and the row loop of main().                                             *)
(*                                                                         *)
(* Strings are sequences of one-character strings.  The external services  *)
(* are the environment: each HTTP exchange is one step whose response is   *)
(* chosen from a small set.  Prompts are not modelled: they only travel to *)
(* the service, whose answer is unconstrained.                             *)
(***************************************************************************)
EXTENDS Integers, Sequences, FiniteSets, TLC

VARIABLES
    pc,            \* position of main(): start, title, description, image_prompt,
                   \* tags, image, save_results, done, config_error, crashed;
                   \* "request" while a lone _make_request call is observed
    environ,       \* which credential variables are set
    input,         \* input.csv: whether it exists, its columns, its row count
    idx,           \* position of the row loop: index of the row being processed
    title, description, image_prompt, tags, image,   \* locals of main()
    results,       \* the dict of five column lists
    files,         \* names of the image files saved so far
    output,        \* product_information.csv
    error,         \* the exception that ended main(), if any
    networkUsed,   \* some request was sent to the text or the image service
    imageRows,     \* rows for which the image service was called
    attempt,       \* loop variable of _make_request
    rstate,        \* idle, running, returned, raised
    rvalue,        \* value returned by _make_request
    rerror,        \* exception raised by _make_request
    resps,         \* responses received by the current _make_request call
    sleeps         \* durations passed to time.sleep by the current call

reqVars == <<attempt, rstate, rvalue, rerror, resps, sleeps>>
rowVars == <<title, description, image_prompt, tags, image>>
outVars == <<results, files, output>>
envVars == <<environ, input>>
vars == <<pc, environ, input, idx, title, description, image_prompt, tags, image,
          results, files, output, error, networkUsed, imageRows,
          attempt, rstate, rvalue, rerror, resps, sleeps>>

(***************************************************************************)
(* Bounds of the model                                                     *)
(***************************************************************************)
MaxRows == 2
MaxHeaderLen == 2

(***************************************************************************)
(* Settings of MistralAPI.__init__                                         *)
(***************************************************************************)
\* variant: one iteration too many
max_retries_off_by_one == 3 + 1
max_retries == 3
retry_delay == 2

(***************************************************************************)
(* Strings                                                                 *)
(***************************************************************************)
None == <<"None">>
Quote == "\""
Apostrophe == "'"
Whitespace == {" ", "\n", "\t"}
DigitChars == <<"0", "1", "2", "3", "4", "5", "6", "7", "8", "9">>

SeqsUpTo(S, n) == UNION {[1..k -> S] : k \in 1..n}

IsDigit(c) == \E d \in 1..10 : DigitChars[d] = c
DigitVal(c) == (CHOOSE d \in 1..10 : DigitChars[d] = c) - 1

RECURSIVE DigitsValue(_)
DigitsValue(s) ==
    IF s = <<>> THEN 0
    ELSE 10 * DigitsValue(SubSeq(s, 1, Len(s) - 1)) + DigitVal(s[Len(s)])

AllDigits(s) == Len(s) > 0 /\ \A i \in 1..Len(s) : IsDigit(s[i])

\* int(str): an optional sign followed by decimal digits, ValueError otherwise
Py_int(s) ==
    IF AllDigits(s) THEN [ok |-> TRUE, val |-> DigitsValue(s)]
    ELSE IF Len(s) > 1 /\ s[1] \in {"-", "+"} /\ AllDigits(Tail(s))
         THEN [ok |-> TRUE,
               val |-> IF s[1] = "-" THEN 0 - DigitsValue(Tail(s)) ELSE DigitsValue(Tail(s))]
         ELSE [ok |-> FALSE, val |-> 0]

\* the f-string conversion of a non-negative int
RECURSIVE Py_str(_)
Py_str(n) ==
    IF n < 10 THEN <<DigitChars[n + 1]>>
    ELSE Py_str(n \div 10) \o <<DigitChars[(n % 10) + 1]>>

RECURSIVE LStrip(_)
LStrip(s) == IF s # <<>> /\ s[1] \in Whitespace THEN LStrip(Tail(s)) ELSE s

RECURSIVE RStrip(_)
RStrip(s) ==
    IF s # <<>> /\ s[Len(s)] \in Whitespace THEN RStrip(SubSeq(s, 1, Len(s) - 1)) ELSE s

\* str.strip()
Strip(s) == RStrip(LStrip(s))

IsNotQuote(c) == c # Quote

\* variant: the replace call left out
StripQuotesForgotten(s) == s
\* str.replace('"', '')
StripQuotes(s) == SelectSeq(s, IsNotQuote)

\* _get_template_description(), abbreviated: it starts and ends with
\* whitespace, holds HTML tags and the apostrophe of "it's", and no double quote
TemplateDescription ==
    <<"\n", " ", "<", "p", ">", "i", "t", "'", "s", "<", "/", "p", ">", "\n", " ">>

\* variant: files numbered by the count of records instead of the row index
FileNameRenumbered(i) ==
    <<"i", "m", "a", "g", "e", "_">> \o Py_str(Len(results.file_name)) \o <<".", "p", "n", "g">>
\* f"image_{idx}.png"
FileName(i) == <<"i", "m", "a", "g", "e", "_">> \o Py_str(i) \o <<".", "p", "n", "g">>

(***************************************************************************)
(* The environment's answers                                               *)
(***************************************************************************)
HeaderChars == {"3", "-", "x"}
Headers == {None} \cup SeqsUpTo(HeaderChars, MaxHeaderLen)

RawTexts == { <<" ", Quote, "a", Quote, "\n">>, <<Apostrophe, "b", Quote>> }

\* requests.post raising, raise_for_status raising, a body without choices
FailureKinds == {"ConnectionError", "HTTPError", "KeyError"}

OkResponse(t) == [kind |-> "ok", text |-> t, header |-> None]
RateLimited(h) == [kind |-> "429", text |-> <<>>, header |-> h]
Failure(k) == [kind |-> k, text |-> <<>>, header |-> None]

Responses ==
    {OkResponse(t) : t \in RawTexts} \cup {RateLimited(h) : h \in Headers}
        \cup {Failure(k) : k \in FailureKinds}

\* the answers drawn while a whole batch runs
BatchResponses ==
    {OkResponse(t) : t \in RawTexts} \cup {RateLimited(None), RateLimited(<<"3">>)}
        \cup {Failure("ConnectionError")}

ImageOutcomes == {"ok", "generate_raises", "fetch_raises", "save_raises"}

Inputs ==
    [file : {"ok"}, columns : {{"details"}, {"theme"}, {"details", "theme"}},
     nrows : 0..MaxRows]
        \cup [file : {"missing", "empty"}, columns : {{}}, nrows : {0}]

Environs == [MISTRAL_API_KEY : BOOLEAN, TOGETHER_API_KEY : BOOLEAN]

EmptyResults ==
    [file_name |-> <<>>, local_path |-> <<>>, title |-> <<>>, description |-> <<>>,
     tags |-> <<>>]

NotWritten == [written |-> FALSE, table |-> EmptyResults]

(***************************************************************************)
(* MistralAPI._make_request                                                *)
(***************************************************************************)
\* int(response.headers.get('Retry-After', self.retry_delay * (attempt + 1)))
\* variant: the Retry-After header is not read
WaitTimeIgnoringHeader(header, a) == [ok |-> TRUE, val |-> retry_delay * (a + 1)]
WaitTime(header, a) ==
    IF header = None THEN [ok |-> TRUE, val |-> retry_delay * (a + 1)]
    ELSE Py_int(header)

\* the "continue" of the 429 branch: the for loop moves to its next value
\* variant: a 429 answer repeats the same iteration
ContinueRateLimitedNotCounted(a) == a
ContinueRateLimited(a) == a + 1

\* the "continue" of the except branch
ContinueAfterError(a) == a + 1

\* attempt < self.max_retries - 1
\* variant: the last attempt is taken for one that can be retried
AttemptsRemainOffByOne(a) == a < max_retries
AttemptsRemain(a) == a < max_retries - 1

StartRequest ==
    /\ attempt' = 0
    /\ rstate' = "running"
    /\ rvalue' = None
    /\ rerror' = "none"
    /\ resps' = <<>>
    /\ sleeps' = <<>>

\* the loop goes on with value a, or range(max_retries) is exhausted and the
\* function ends without a return statement
LoopContinue(a) ==
    IF a < max_retries
    THEN /\ attempt' = a
         /\ UNCHANGED <<rstate, rvalue, rerror>>
    ELSE /\ rstate' = "returned"
         /\ rvalue' = None
         /\ UNCHANGED <<attempt, rerror>>

\* except Exception as e
ExceptBranch(e) ==
    IF AttemptsRemain(attempt)
    THEN /\ sleeps' = Append(sleeps, retry_delay)
         /\ LoopContinue(ContinueAfterError(attempt))
    ELSE /\ rstate' = "raised"
         /\ rerror' = e
         /\ UNCHANGED <<attempt, rvalue, sleeps>>

\* one iteration of the for loop: one requests.post and what follows it
Attempt(resp) ==
    /\ rstate = "running"
    /\ attempt < max_retries
    /\ resps' = Append(resps, resp)
    /\ networkUsed' = TRUE
    /\ IF resp.kind = "429"
       THEN LET w == WaitTime(resp.header, attempt) IN
            IF ~w.ok THEN ExceptBranch("ValueError")            \* int() raised
            ELSE IF w.val < 0 THEN ExceptBranch("ValueError")   \* time.sleep raised
            ELSE /\ sleeps' = Append(sleeps, w.val)
                 /\ LoopContinue(ContinueRateLimited(attempt))
       ELSE IF resp.kind = "ok"
       THEN /\ rstate' = "returned"
            /\ rvalue' = Strip(resp.text)
            /\ UNCHANGED <<attempt, rerror, sleeps>>
       ELSE ExceptBranch(resp.kind)
    /\ UNCHANGED <<pc, envVars, idx, rowVars, outVars, error, imageRows>>

(***************************************************************************)
(* main()                                                                  *)
(***************************************************************************)
Raise(where, e) ==
    /\ pc' = where
    /\ error' = e

\* 'details' not in df.columns
\* variant: the column check left out
DetailsMissingUnchecked(columns) == FALSE
DetailsMissing(columns) == "details" \notin columns

\* the head of the row loop, entered with the index of the next row
LoopNext(i) ==
    /\ idx' = i
    /\ IF i < input.nrows
       THEN pc' = "title" /\ StartRequest
       ELSE pc' = "save_results" /\ UNCHANGED reqVars

Startup ==
    /\ pc = "start"
    /\ IF ~environ.MISTRAL_API_KEY THEN
            Raise("config_error", "ValueError") /\ UNCHANGED <<idx, reqVars>>
       ELSE IF ~environ.TOGETHER_API_KEY THEN
            Raise("config_error", "AuthenticationError") /\ UNCHANGED <<idx, reqVars>>
       ELSE IF input.file = "missing" THEN
            Raise("config_error", "FileNotFoundError") /\ UNCHANGED <<idx, reqVars>>
       ELSE IF input.file = "empty" THEN
            Raise("config_error", "ValueError") /\ UNCHANGED <<idx, reqVars>>
       ELSE IF DetailsMissing(input.columns) THEN
            Raise("config_error", "ValueError") /\ UNCHANGED <<idx, reqVars>>
       ELSE LoopNext(0) /\ UNCHANGED error
    /\ results' = EmptyResults
    /\ UNCHANGED <<envVars, rowVars, files, output, networkUsed, imageRows>>

\* what a generate_* method sees when _make_request ends
CallEnded == rstate \in {"returned", "raised"}
CallFailed == rstate = "raised" \/ rvalue = None
CallError == IF rstate = "raised" THEN rerror ELSE "AttributeError"

Crash(e) ==
    /\ Raise("crashed", e)
    /\ UNCHANGED <<envVars, idx, rowVars, outVars, networkUsed, imageRows, reqVars>>

GenerateTitleReturn ==
    /\ pc = "title"
    /\ CallEnded
    /\ IF CallFailed THEN Crash(CallError)
       ELSE /\ title' = StripQuotes(rvalue)
            /\ pc' = "description"
            /\ StartRequest
            /\ UNCHANGED <<envVars, idx, description, image_prompt, tags, image,
                           outVars, error, networkUsed, imageRows>>

GenerateDescriptionReturn ==
    /\ pc = "description"
    /\ CallEnded
    /\ IF CallFailed THEN Crash(CallError)
       ELSE /\ description' = StripQuotes(rvalue) \o TemplateDescription
            /\ pc' = "image_prompt"
            /\ StartRequest
            /\ UNCHANGED <<envVars, idx, title, image_prompt, tags, image,
                           outVars, error, networkUsed, imageRows>>

GenerateImagePromptReturn ==
    /\ pc = "image_prompt"
    /\ CallEnded
    /\ IF CallFailed THEN Crash(CallError)
       ELSE /\ image_prompt' = StripQuotes(rvalue)
            /\ pc' = "tags"
            /\ StartRequest
            /\ UNCHANGED <<envVars, idx, title, description, tags, image,
                           outVars, error, networkUsed, imageRows>>

\* variant: a failed text generation skips the row instead of ending main()
GenerateTagsReturnCaught ==
    /\ pc = "tags"
    /\ CallEnded
    /\ IF CallFailed
       THEN /\ LoopNext(idx + 1)
            /\ UNCHANGED <<envVars, rowVars, outVars, error, networkUsed, imageRows>>
       ELSE /\ tags' = StripQuotes(rvalue)
            /\ pc' = "image"
            /\ UNCHANGED <<envVars, idx, title, description, image_prompt, image,
                           outVars, error, networkUsed, imageRows, reqVars>>

GenerateTagsReturn ==
    /\ pc = "tags"
    /\ CallEnded
    /\ IF CallFailed THEN Crash(CallError)
       ELSE /\ tags' = StripQuotes(rvalue)
            /\ pc' = "image"
            /\ UNCHANGED <<envVars, idx, title, description, image_prompt, image,
                           outVars, error, networkUsed, imageRows, reqVars>>

\* generate_image: any exception of the service call, of the fetch or of
\* Image.open is caught and None is returned
generate_image(outcome) ==
    IF outcome \in {"generate_raises", "fetch_raises"} THEN "None" ELSE "Image"

\* if image:
\* variant: the test of the image left out
TruthyAlways(img) == TRUE
Truthy(img) == img # "None"

AppendRecord(file_name) ==
    [file_name |-> Append(results.file_name, file_name),
     local_path |-> Append(results.local_path, file_name),
     title |-> Append(results.title, title),
     description |-> Append(results.description, description),
     tags |-> Append(results.tags, tags)]

\* generate_image, image.save, the five appends, and the step of the row loop
ImageStep(outcome) ==
    /\ pc = "image"
    /\ networkUsed' = TRUE
    /\ imageRows' = imageRows \cup {idx}
    /\ image' = generate_image(outcome)
    /\ IF Truthy(generate_image(outcome))
       THEN IF outcome = "save_raises"
            THEN /\ Raise("crashed", "OSError")
                 /\ UNCHANGED <<idx, outVars, reqVars>>
            ELSE /\ files' = files \cup {FileName(idx)}
                 /\ results' = AppendRecord(FileName(idx))
                 /\ LoopNext(idx + 1)
                 /\ UNCHANGED <<output, error>>
       ELSE /\ LoopNext(idx + 1)
            /\ UNCHANGED <<outVars, error>>
    /\ UNCHANGED <<envVars, title, description, image_prompt, tags>>

\* pd.DataFrame(results).to_csv(...)
SaveResults ==
    /\ pc = "save_results"
    /\ output' = [written |-> TRUE, table |-> results]
    /\ pc' = "done"
    /\ UNCHANGED <<envVars, idx, rowVars, results, files, error, networkUsed,
                   imageRows, reqVars>>

(***************************************************************************)
(* Specifications                                                          *)
(***************************************************************************)
InitCommon ==
    /\ idx = 0
    /\ title = <<>> /\ description = <<>> /\ image_prompt = <<>> /\ tags = <<>>
    /\ image = "unset"
    /\ results = EmptyResults
    /\ files = {}
    /\ output = NotWritten
    /\ error = "none"
    /\ networkUsed = FALSE
    /\ imageRows = {}

\* a run of main()
Init ==
    /\ pc = "start"
    /\ environ \in Environs
    /\ input \in Inputs
    /\ InitCommon
    /\ attempt = 0 /\ rstate = "idle" /\ rvalue = None /\ rerror = "none"
    /\ resps = <<>> /\ sleeps = <<>>

Next ==
    \/ Startup
    \/ \E resp \in BatchResponses : Attempt(resp)
    \/ GenerateTitleReturn
    \/ GenerateDescriptionReturn
    \/ GenerateImagePromptReturn
    \/ GenerateTagsReturn
    \/ \E outcome \in ImageOutcomes : ImageStep(outcome)
    \/ SaveResults

Spec == Init /\ [][Next]_vars

\* one call of _make_request against every sequence of responses
InitReq ==
    /\ pc = "request"
    /\ environ = [MISTRAL_API_KEY |-> TRUE, TOGETHER_API_KEY |-> TRUE]
    /\ input = [file |-> "ok", columns |-> {"details"}, nrows |-> 0]
    /\ InitCommon
    /\ attempt = 0 /\ rstate = "running" /\ rvalue = None /\ rerror = "none"
    /\ resps = <<>> /\ sleeps = <<>>

NextReq == \E resp \in Responses : Attempt(resp)

SpecReq == InitReq /\ [][NextReq]_vars

\* requests.post returns or raises within its timeout, and time.sleep returns
FairSpecReq == SpecReq /\ WF_vars(NextReq)

(***************************************************************************)
(* Properties of _make_request                                             *)
(***************************************************************************)
RateLimitedAt(i) == resps[i].kind = "429"
FailedAt(i) == resps[i].kind \in FailureKinds
Count429 == Cardinality({i \in 1..Len(resps) : RateLimitedAt(i)})
GaveUp == rstate = "raised" \/ (rstate = "returned" /\ rvalue = None)
ReturnedText == rstate = "returned" /\ rvalue # None
AllRateLimited == \A i \in 1..Len(resps) : RateLimitedAt(i)
AllFailed == \A i \in 1..Len(resps) : FailedAt(i)

\* C1, as stated: a 429 answer does not count against the budget, so a call
\* that gives up has made 3 attempts that were not rate limited
C1_NotCounted == GaveUp => Len(resps) - Count429 = 3

\* C1, amended: a 429 answer uses up one of the 3 iterations like any other
\* failed attempt: the loop variable always equals the number of requests
\* sent, a call that gives up has sent exactly 3 requests whatever their mix,
\* and a success that arrives on one of these 3 attempts is returned, after at
\* most 2 rate-limited ones
C1_RateLimitedCounts ==
    /\ Len(resps) <= 3
    /\ rstate = "running" => attempt = Len(resps)
    /\ GaveUp => Len(resps) = 3
    /\ (Len(resps) > 0 /\ resps[Len(resps)].kind = "ok") =>
            (ReturnedText /\ Count429 <= 2)

C1_Witness == ReturnedText /\ Count429 = 2 /\ Len(resps) = 3

\* C2: a call ends by returning a text or by raising; answered only with 429,
\* it raises and never returns without a text
C2_TextOrError ==
    /\ rstate = "returned" => rvalue # None
    /\ (rstate \in {"returned", "raised"} /\ AllRateLimited) => rstate = "raised"

\* C3: when every attempt fails otherwise than by a 429, there are exactly 3
\* requests, a sleep of 2 s after the first and after the second and none
\* after the third, and the third failure is raised
C3_ThreeAttemptsFixedDelay ==
    (pc = "request" /\ AllFailed) =>
        /\ rstate = "running" =>
                (Len(resps) < 3 /\ sleeps = [i \in 1..Len(resps) |-> 2])
        /\ rstate # "running" =>
                /\ Len(resps) = 3
                /\ sleeps = <<2, 2>>
                /\ rstate = "raised"
                /\ rerror = resps[3].kind

C3_Witness ==
    /\ rstate = "raised"
    /\ Len(resps) = 3
    /\ AllFailed
    /\ resps[1].kind = "HTTPError"
    /\ rerror = "KeyError"

\* values a Retry-After header can spell in this model
RetryAfterValues == {0, 3, 33, 333, 3333}

\* C7: the i-th request answered 429 is followed, before any further
\* request, by a sleep of N when its Retry-After header spells the number N,
\* and of 2 * i (2, 4, 6) when it carries no such header
C7_RateLimitSleep ==
    /\ Len(resps) <= Len(sleeps) + 1
    /\ \A i \in 1..Len(resps) :
         RateLimitedAt(i) =>
            /\ resps[i].header = None => (Len(sleeps) >= i /\ sleeps[i] = 2 * i)
            /\ \A n \in RetryAfterValues :
                 resps[i].header = Py_str(n) => (Len(sleeps) >= i /\ sleeps[i] = n)

C7_Witness ==
    /\ Len(resps) = 3
    /\ resps[1] = RateLimited(<<"3", "3">>)
    /\ resps[2] = RateLimited(None)
    /\ resps[3] = RateLimited(None)
    /\ sleeps = <<33, 4, 6>>

\* C10: whatever the service answers, one call sends at most 3 requests and
\* ends, by returning or by raising
C10_BoundedAndTerminates ==
    /\ [](Len(resps) <= 3)
    /\ <>(rstate \in {"returned", "raised"})

C10_Witness == rstate = "returned" /\ Len(resps) = 3 /\ AllRateLimited

(***************************************************************************)
(* Properties of main()                                                    *)
(***************************************************************************)
TextSteps == {"title", "description", "image_prompt", "tags"}
ImageName(r) == <<"i", "m", "a", "g", "e", "_">> \o Py_str(r) \o <<".", "p", "n", "g">>
NoQuote(s) == \A i \in 1..Len(s) : s[i] # Quote
EndsWith(s, suffix) ==
    /\ Len(s) >= Len(suffix)
    /\ SubSeq(s, Len(s) - Len(suffix) + 1, Len(s)) = suffix
RecordsOf(table, r) == {k \in 1..Len(table.file_name) : table.file_name[k] = ImageName(r)}
RowSaved == pc = "image" /\ image' = "Image" /\ pc' # "crashed"
RowSkipped == pc = "image" /\ image' = "None"
TextFailed == pc \in TextSteps /\ CallEnded /\ CallFailed

\* C4: a row whose image is generated and saved adds exactly one record, for
\* that row, and every record's description ends with the template while its
\* title, description and tags hold no double-quote character
C4_OneCleanRecord ==
    /\ [][RowSaved =>
            /\ Len(results'.file_name) = Len(results.file_name) + 1
            /\ RecordsOf(results', idx) = {Len(results'.file_name)}]_vars
    /\ [](\A k \in 1..Len(results.file_name) :
            /\ EndsWith(results.description[k], TemplateDescription)
            /\ Len(results.description[k]) > Len(TemplateDescription)
            /\ NoQuote(results.title[k])
            /\ NoQuote(results.description[k])
            /\ NoQuote(results.tags[k]))
    /\ [](\A r \in 0..input.nrows : Cardinality(RecordsOf(results, r)) <= 1)

C4_Witness ==
    /\ pc = "done"
    /\ Len(results.file_name) = 2
    /\ results.title[1] = <<"a">>
    /\ results.tags[2] = <<Apostrophe, "b">>
    /\ results.description[2] = <<"a">> \o TemplateDescription

\* C5: a row whose image generation fails adds no record and no file, raises
\* nothing, and the loop goes on to the next row or, after the last row, to
\* writing the table, which a finished run has written
C5_SkipAndContinue ==
    /\ [][RowSkipped =>
            /\ results' = results
            /\ files' = files
            /\ error' = error
            /\ idx' = idx + 1
            /\ pc' = IF idx + 1 < input.nrows THEN "title" ELSE "save_results"]_vars
    /\ [](pc = "save_results" => ENABLED SaveResults)
    /\ [](pc = "done" => (output.written /\ output.table = results))
    /\ [](\A r \in 0..input.nrows : (ImageName(r) \in files) = (RecordsOf(results, r) # {}))

C5_Witness ==
    /\ pc = "done"
    /\ input.nrows = 2
    /\ imageRows = {0, 1}
    /\ image = "None"
    /\ Len(results.file_name) = 1
    /\ files = {ImageName(0)}
    /\ output.table = results

\* C6: a text generation that fails ends the batch there: the image service
\* is not called for the row, nothing more happens afterwards, and the table
\* is not written, while the files of earlier rows stay
C6_TextFailureHalts ==
    /\ [][TextFailed =>
            /\ pc' = "crashed"
            /\ error' = CallError
            /\ UNCHANGED <<idx, results, files, output, imageRows>>]_vars
    /\ [][pc = "crashed" => UNCHANGED vars]_vars
    /\ []((pc = "crashed" /\ error # "OSError") =>
            /\ idx \notin imageRows
            /\ ~output.written
            /\ \A r \in idx..input.nrows : RecordsOf(results, r) = {})

C6_Witness ==
    /\ pc = "crashed"
    /\ error = "AttributeError"
    /\ idx = 1
    /\ files = {ImageName(0)}
    /\ tags = <<"a">>
    /\ ~output.written

\* C8: with no details column in the input, main() ends with an error at
\* startup: no request is ever sent, no row is processed and nothing is written
C8_MissingColumnFailsFirst ==
    "details" \notin input.columns =>
        /\ pc \in {"start", "config_error"}
        /\ pc = "config_error" => error # "none"
        /\ ~networkUsed
        /\ imageRows = {}
        /\ rstate = "idle"
        /\ results = EmptyResults
        /\ files = {}
        /\ ~output.written

C8_Witness ==
    /\ pc = "config_error"
    /\ error = "ValueError"
    /\ environ.MISTRAL_API_KEY /\ environ.TOGETHER_API_KEY
    /\ input.file = "ok"
    /\ input.columns = {"theme"}
    /\ input.nrows = 2

\* C9: the records are always in input order, each names image_{row}.png of
\* the row that produced it as file name and as local path, without
\* renumbering after skipped rows, and the five columns have one length
C9_OrderedNamedRecords ==
    /\ [](/\ Len(results.local_path) = Len(results.file_name)
          /\ Len(results.title) = Len(results.file_name)
          /\ Len(results.description) = Len(results.file_name)
          /\ Len(results.tags) = Len(results.file_name)
          /\ \A k \in 1..Len(results.file_name) :
                /\ results.local_path[k] = results.file_name[k]
                /\ \E r \in 0..(input.nrows - 1) : results.file_name[k] = ImageName(r)
          /\ \A j, k \in 1..Len(results.file_name) :
                j < k => \E r1, r2 \in 0..(input.nrows - 1) :
                            /\ r1 < r2
                            /\ results.file_name[j] = ImageName(r1)
                            /\ results.file_name[k] = ImageName(r2))
    /\ [][results' # results =>
            /\ results'.file_name = Append(results.file_name, ImageName(idx))
            /\ results'.local_path = Append(results.local_path, ImageName(idx))
            /\ results'.title = Append(results.title, title)
            /\ results'.description = Append(results.description, description)
            /\ results'.tags = Append(results.tags, tags)]_vars

C9_Witness ==
    /\ pc = "done"
    /\ input.nrows = 2
    /\ results.file_name = <<ImageName(1)>>
    /\ results.local_path = <<ImageName(1)>>
    /\ imageRows = {0, 1}

====
